---- MODULE Spec2Model ----
(***************************************************************************)
(* The authentication gate of the chat backend (user app): the Clerk       *)
(* identity verifier, the ClerkAuthMiddleware and the Account handlers     *)
(* with their ownership policy, over a small Account table.                *)
(*                                                                         *)
(* One request is in flight at a time.  It arrives (NewRequest), passes    *)
(* the middleware (Gate), is handled by the next stage (NextStage) when    *)
(* the middleware forwards it, and ends (Finish).  The middleware reads    *)
(* the path and its header container; the handler reads the method, the    *)
(* META container and the body, so those are drawn when the handler runs.  *)
(***************************************************************************)
EXTENDS Naturals, Sequences, FiniteSets, TLC

VARIABLES accounts, stamped, pc, request, gate, calls, response

vars == <<accounts, stamped, pc, request, gate, calls, response>>

(***************************************************************************)
(* Bounds and values                                                       *)
(***************************************************************************)

\* at most this many Account rows are ever inserted
MaxAccounts == 2

\* Python's None (an absent header, a NULL column, a missing body key)
None == "<None>"

\* a part of the request that no stage has read yet
Unread == "<unread>"

\* models.py: username = CharField(max_length=16)
UsernameMaxLen == 16

\* `not x` for the str-or-None values the code tests
Falsy(x) == x = None \/ x = ""

\* the sessions known to the identity provider and what sessions.get does
\* for each: a session object with user_id, one without it, None, or an error
ClerkSessions ==
    [ sess_u1    |-> [kind |-> "session", has_user_id |-> TRUE,  user_id |-> "user_1"],
      sess_u2    |-> [kind |-> "session", has_user_id |-> TRUE,  user_id |-> "user_2"],
      sess_blank |-> [kind |-> "session", has_user_id |-> TRUE,  user_id |-> ""],
      sess_null  |-> [kind |-> "session", has_user_id |-> TRUE,  user_id |-> None],
      sess_nouid |-> [kind |-> "session", has_user_id |-> FALSE, user_id |-> None],
      sess_gone  |-> [kind |-> "none",    has_user_id |-> FALSE, user_id |-> None],
      sess_rve   |-> [kind |-> "ResponseValidationError", has_user_id |-> FALSE, user_id |-> None],
      sess_err   |-> [kind |-> "SDKError", has_user_id |-> FALSE, user_id |-> None] ]

Tokens == DOMAIN ClerkSessions

\* what request.headers.get / request.META.get can give for the credential key
HeaderValues == Tokens \cup {None, ""}

Usernames == {"ann", "bob", "a_name_of_17_chars"}

\* request bodies: username and a client-supplied clerk_id, each possibly missing
Bodies == [username : Usernames \cup {None}, clerk_id : {None, "user_2"}]

\* the body of a request whose handler never reads it
UnreadBody == [username |-> Unread, clerk_id |-> Unread]

Digits == <<"1", "2", "3", "4", "5", "6", "7", "8", "9">>

\* the primary key of the i-th inserted row, as it appears in a URL
account_id(i) == Digits[i]

\* where the user app's urlpatterns are mounted (a non-exempt path)
Mount == "/api/auth/"

Paths ==
    {"/admin/", "/admin/users/", "/administrator", "/adm"}
    \cup {Mount \o u : u \in {"", "list/", "retrieve/1/", "retrieve/3/"}}
    \cup {Mount \o account_id(i) \o "/" : i \in 1..(MaxAccounts + 1)}

Methods == {"GET", "POST", "PUT", "PATCH"}

(***************************************************************************)
(* user/utils/clerkauth.py                                                 *)
(***************************************************************************)

\* sdk.sessions.get(session_id=...)
sessions_get(session_id) == ClerkSessions[session_id]

Raised(exc, lookups) == [raised |-> exc, value |-> None, lookups |-> lookups]

Returned(v, lookups) == [raised |-> "", value |-> v, lookups |-> lookups]

\* (mutant) no hasattr(request_state, 'user_id') test
verify_auth_token_no_hasattr(oauthtoken) ==
    IF Falsy(oauthtoken)
    THEN Raised("PermissionDenied", <<>>)
    ELSE IF sessions_get(oauthtoken).kind = "ResponseValidationError"
    THEN Raised("PermissionDenied", <<oauthtoken>>)
    ELSE IF sessions_get(oauthtoken).kind \notin {"session", "none"}
    THEN Raised(sessions_get(oauthtoken).kind, <<oauthtoken>>)
    ELSE IF sessions_get(oauthtoken).kind = "none"
    THEN Raised("PermissionDenied", <<oauthtoken>>)
    ELSE Returned(sessions_get(oauthtoken).user_id, <<oauthtoken>>)

\* (mutant) no `if not oauthtoken` test: the provider is asked about an empty token
verify_auth_token_asks_first(oauthtoken) ==
    IF Falsy(oauthtoken)
    THEN Raised("PermissionDenied", <<oauthtoken>>)
    ELSE IF sessions_get(oauthtoken).kind = "ResponseValidationError"
    THEN Raised("PermissionDenied", <<oauthtoken>>)
    ELSE IF sessions_get(oauthtoken).kind \notin {"session", "none"}
    THEN Raised(sessions_get(oauthtoken).kind, <<oauthtoken>>)
    ELSE IF sessions_get(oauthtoken).kind = "none" \/ ~sessions_get(oauthtoken).has_user_id
    THEN Raised("PermissionDenied", <<oauthtoken>>)
    ELSE Returned(sessions_get(oauthtoken).user_id, <<oauthtoken>>)

verify_auth_token(oauthtoken) ==
    IF Falsy(oauthtoken)
    THEN Raised("PermissionDenied", <<>>)
    ELSE LET request_state == sessions_get(oauthtoken)
             looked == <<oauthtoken>>
         IN  IF request_state.kind = "ResponseValidationError"
             THEN Raised("PermissionDenied", looked)
             ELSE IF request_state.kind # "session" /\ request_state.kind # "none"
             THEN Raised(request_state.kind, looked)
             ELSE IF request_state.kind = "none" \/ ~request_state.has_user_id
             THEN Raised("PermissionDenied", looked)
             ELSE Returned(request_state.user_id, looked)

\* one entry of the log of verifier calls of the request in flight
Call(site, token) == [site |-> site, token |-> token, result |-> verify_auth_token(token)]

(***************************************************************************)
(* user/middleware/clerkauth.py                                            *)
(***************************************************************************)

EXEMPT_PATHS == {"/admin"}

startswith(s, prefix) ==
    Len(s) >= Len(prefix) /\ SubSeq(s, 1, Len(prefix)) = prefix

\* (mutant) the exempt path compared for equality, not as a prefix
IsExempt_exact(path) == path \in EXEMPT_PATHS

IsExempt(path) == \E p \in EXEMPT_PATHS : startswith(path, p)

\* (mutant) get_response called whatever the verifier did
ClerkAuthMiddleware_call_forwards(path, clerk_session_id) ==
    IF IsExempt(path)
    THEN [forward |-> TRUE, calls |-> <<>>]
    ELSE IF Falsy(clerk_session_id)
    THEN [forward |-> FALSE, calls |-> <<>>]
    ELSE [forward |-> TRUE, calls |-> <<Call("gate", clerk_session_id)>>]

\* (mutant) no test of the header before the verifier is called
ClerkAuthMiddleware_call_unchecked(path, clerk_session_id) ==
    IF IsExempt(path)
    THEN [forward |-> TRUE, calls |-> <<>>]
    ELSE [forward |-> verify_auth_token(clerk_session_id).raised = "",
          calls |-> <<Call("gate", clerk_session_id)>>]

\* (mutant) the verifier called again before the request is forwarded
ClerkAuthMiddleware_call_twice(path, clerk_session_id) ==
    IF IsExempt(path)
    THEN [forward |-> TRUE, calls |-> <<>>]
    ELSE IF Falsy(clerk_session_id)
    THEN [forward |-> FALSE, calls |-> <<>>]
    ELSE [forward |-> verify_auth_token(clerk_session_id).raised = "",
          calls |-> <<Call("gate", clerk_session_id), Call("gate", clerk_session_id)>>]

\* ClerkAuthMiddleware.__call__ up to the point where it forwards or raises:
\* the verifier calls it makes and whether it forwards
ClerkAuthMiddleware_call(path, clerk_session_id) ==
    IF IsExempt(path)
    THEN [forward |-> TRUE, calls |-> <<>>]
    ELSE IF Falsy(clerk_session_id)
    THEN [forward |-> FALSE, calls |-> <<>>]
    ELSE LET c == Call("gate", clerk_session_id)
         IN  [forward |-> c.result.raised = "", calls |-> <<c>>]

(***************************************************************************)
(* user/models.py, user/serializers.py                                     *)
(***************************************************************************)

\* a row of Account; account_id is the row's position, rows stay in `created` order
Account(clerk_id, username, display_pic) ==
    [clerk_id |-> clerk_id, username |-> username, display_pic |-> display_pic]

Rows == DOMAIN accounts

\* AccountSerializer output: fields account_id, username, display_pic (never clerk_id)
AccountSerializer(i) ==
    [account_id |-> account_id(i), username |-> accounts[i].username,
     display_pic |-> accounts[i].display_pic]

\* AccountSerializer.is_valid for a body, `instance` being the row updated (0 on create):
\* username within max_length and unique among the other rows
is_valid(data, instance) ==
    \/ data.username = None
    \/ /\ Len(data.username) <= UsernameMaxLen
       /\ \A i \in Rows : i # instance => accounts[i].username # data.username

\* (mutant) clerk_id declared without unique=True
ClerkIdTaken_off(clerk_id) == FALSE

\* the unique constraint of Account.clerk_id (NULLs do not collide)
ClerkIdTaken(clerk_id) ==
    clerk_id # None /\ \E i \in Rows : accounts[i].clerk_id = clerk_id

(***************************************************************************)
(* user/views.py: AccountViewset                                           *)
(***************************************************************************)

\* what a handler did: HTTP status, payload, the table afterwards, the owner
\* stamps afterwards, and the number of verify_auth_token calls it made
Handled(status, body, accts, stmp, n) ==
    [status |-> status, body |-> body, accounts |-> accts, stamped |-> stmp, n |-> n]

Untouched(status, n) == Handled(status, <<>>, accounts, stamped, n)

\* the response DRF makes of an exception leaving a handler
StatusOf(exc) ==
    CASE exc = "PermissionDenied" -> 403
      [] exc = "Http404"          -> 404
      [] exc = "ValidationError"  -> 400
      [] OTHER                    -> 500

\* (mutant) filter() dropped: every row
FilterByClerkId_all(clerkid) == [i \in Rows |-> i]

\* rows of the table with the given owner, in table order
FilterByClerkId(clerkid) ==
    SelectSeq([i \in Rows |-> i], LAMBDA i : accounts[i].clerk_id = clerkid)

AllRows == [i \in Rows |-> i]

\* AccountViewset.get_queryset: one verifier call; any exception becomes PermissionDenied
get_queryset(oauthToken) ==
    LET v == verify_auth_token(oauthToken)
    IN  IF v.raised # ""
        THEN [exc |-> "PermissionDenied", rows |-> <<>>]
        ELSE [exc |-> "", rows |-> FilterByClerkId(v.value)]

\* the rows of a queryset whose primary key is pk
Lookup(rows, pk) == SelectSeq(rows, LAMBDA i : account_id(i) = pk)

\* (mutant) the lookup made in the class-level queryset, not in get_queryset()
get_object_unscoped(oauthToken, pk) ==
    IF get_queryset(oauthToken).exc # ""
    THEN [exc |-> "PermissionDenied", row |-> 0]
    ELSE IF Lookup(AllRows, pk) = <<>> THEN [exc |-> "Http404", row |-> 0]
    ELSE [exc |-> "", row |-> Lookup(AllRows, pk)[1]]

\* GenericAPIView.get_object over AccountViewset.get_queryset
get_object(oauthToken, pk) ==
    LET qs == get_queryset(oauthToken)
    IN  IF qs.exc # "" THEN [exc |-> qs.exc, row |-> 0]
        ELSE IF Lookup(qs.rows, pk) = <<>> THEN [exc |-> "Http404", row |-> 0]
        ELSE [exc |-> "", row |-> Lookup(qs.rows, pk)[1]]

\* ListModelMixin.list
AccountViewset_list(oauthToken) ==
    LET qs == get_queryset(oauthToken)
    IN  IF qs.exc # "" THEN Untouched(StatusOf(qs.exc), 1)
        ELSE Handled(200, [k \in DOMAIN qs.rows |-> AccountSerializer(qs.rows[k])],
                     accounts, stamped, 1)

\* RetrieveModelMixin.retrieve
AccountViewset_retrieve(oauthToken, pk) ==
    LET obj == get_object(oauthToken, pk)
    IN  IF obj.exc # "" THEN Untouched(StatusOf(obj.exc), 1)
        ELSE Handled(200, <<AccountSerializer(obj.row)>>, accounts, stamped, 1)

\* (mutant) the owner taken from the body when the body carries one
perform_create_client_owner(oauthToken, data) ==
    IF verify_auth_token(oauthToken).raised # ""
    THEN [exc |-> "PermissionDenied", row |-> None]
    ELSE IF data.clerk_id # None
    THEN [exc |-> "", row |-> Account(data.clerk_id, data.username, None)]
    ELSE [exc |-> "",
          row |-> Account(verify_auth_token(oauthToken).value, data.username, None)]

\* (mutant) only the verifier's failure caught: the IntegrityError of the save surfaces
perform_create_integrity_error(oauthToken, data) ==
    IF verify_auth_token(oauthToken).raised # ""
    THEN [exc |-> "PermissionDenied", row |-> None]
    ELSE IF ClerkIdTaken(verify_auth_token(oauthToken).value)
    THEN [exc |-> "IntegrityError", row |-> None]
    ELSE [exc |-> "",
          row |-> Account(verify_auth_token(oauthToken).value, data.username, None)]

\* AccountViewset.perform_create: the row saved, or the exception raised
perform_create(oauthToken, data) ==
    LET v == verify_auth_token(oauthToken)
    IN  IF v.raised # "" THEN [exc |-> "PermissionDenied", row |-> None]
        ELSE IF ClerkIdTaken(v.value) THEN [exc |-> "PermissionDenied", row |-> None]
        ELSE [exc |-> "", row |-> Account(v.value, data.username, None)]

\* CreateModelMixin.create: validation, then perform_create
AccountViewset_create(oauthToken, data) ==
    IF ~is_valid(data, 0) THEN Untouched(StatusOf("ValidationError"), 0)
    ELSE LET made == perform_create(oauthToken, data)
         IN  IF made.exc # "" THEN Untouched(StatusOf(made.exc), 1)
             ELSE Handled(201,
                          <<[account_id |-> account_id(Len(accounts) + 1),
                             username |-> made.row.username,
                             display_pic |-> made.row.display_pic]>>,
                          Append(accounts, made.row),
                          Append(stamped, verify_auth_token(oauthToken).value), 1)

\* serializer.save on an existing row: only the serializer's writable fields present
\* in the body are written
perform_update(row, data) ==
    IF data.username = None THEN accounts
    ELSE [accounts EXCEPT ![row].username = data.username]

\* UpdateModelMixin.update (PUT, and PATCH through partial_update): the exception
\* raised or the table after the save, with the row and the verifier calls made
UpdateObject(obj, data) ==
    IF obj.exc # "" THEN [exc |-> obj.exc, row |-> 0, accounts |-> accounts]
    ELSE IF ~is_valid(data, obj.row)
    THEN [exc |-> "ValidationError", row |-> obj.row, accounts |-> accounts]
    ELSE [exc |-> "", row |-> obj.row, accounts |-> perform_update(obj.row, data)]

mixin_update(oauthToken, pk, data) == UpdateObject(get_object(oauthToken, pk), data)

\* the 200 response of an update: the saved row, serialized
Updated(u, n) ==
    Handled(200,
            <<[account_id |-> account_id(u.row),
               username |-> u.accounts[u.row].username,
               display_pic |-> u.accounts[u.row].display_pic]>>,
            u.accounts, stamped, n)

\* the response DRF makes of UpdateModelMixin.update's outcome
UpdateResponse(u) ==
    IF u.exc # "" THEN Untouched(StatusOf(u.exc), 1) ELSE Updated(u, 1)

AccountViewset_update(oauthToken, pk, data) ==
    UpdateResponse(mixin_update(oauthToken, pk, data))

\* AccountViewset.partial_update: verify, get_object, the ownership test, then
\* UpdateModelMixin.partial_update; every exception becomes PermissionDenied
\* (mutant) only the verifier's failure caught; get_object's Http404 surfaces
PartialUpdate_narrow(v, obj, u) ==
    IF v.raised # "" THEN Untouched(403, 1)
    ELSE IF obj.exc # "" THEN Untouched(StatusOf(obj.exc), 2)
    ELSE IF accounts[obj.row].clerk_id # v.value THEN Untouched(403, 2)
    ELSE IF u.exc # "" THEN Untouched(403, 3)
    ELSE Updated(u, 3)

\* AccountViewset.partial_update with its three evaluations named
PartialUpdate(v, obj, u) ==
    IF v.raised # "" THEN Untouched(403, 1)
    ELSE IF obj.exc # "" THEN Untouched(403, 2)
    ELSE IF accounts[obj.row].clerk_id # v.value THEN Untouched(403, 2)
    ELSE IF u.exc # "" THEN Untouched(403, 3)
    ELSE Updated(u, 3)

partial_update(oauthToken, pk, data) ==
    PartialUpdate(verify_auth_token(oauthToken), get_object(oauthToken, pk),
                  mixin_update(oauthToken, pk, data))

(***************************************************************************)
(* user/views.py: AccountsListView, AccountRetrieveView                    *)
(***************************************************************************)

\* AccountsListView.list: verify, then every row
AccountsListView_list(oauthToken) ==
    IF verify_auth_token(oauthToken).raised # "" THEN Untouched(403, 1)
    ELSE Handled(200, [k \in DOMAIN AllRows |-> AccountSerializer(AllRows[k])],
                 accounts, stamped, 1)

\* (mutant) the lookup made among the caller's own rows
AccountRetrieveView_retrieve_own(oauthToken, pk) ==
    IF verify_auth_token(oauthToken).raised # "" THEN Untouched(403, 1)
    ELSE IF Lookup(FilterByClerkId(verify_auth_token(oauthToken).value), pk) = <<>>
    THEN Untouched(403, 1)
    ELSE Handled(200, <<AccountSerializer(Lookup(AllRows, pk)[1])>>, accounts, stamped, 1)

\* AccountRetrieveView.get_object inside RetrieveModelMixin.retrieve: verify, then
\* the unfiltered lookup; every exception (Http404 too) becomes PermissionDenied
AccountRetrieveView_retrieve(oauthToken, pk) ==
    IF verify_auth_token(oauthToken).raised # "" THEN Untouched(403, 1)
    ELSE IF Lookup(AllRows, pk) = <<>> THEN Untouched(403, 1)
    ELSE Handled(200, <<AccountSerializer(Lookup(AllRows, pk)[1])>>, accounts, stamped, 1)

(***************************************************************************)
(* user/urls.py                                                            *)
(***************************************************************************)

\* a str converter's match: one or more characters, none of them "/"
IsSegment(s) == Len(s) > 0 /\ \A k \in 1..Len(s) : SubSeq(s, k, k) # "/"

\* "<str:pk>/" matches the whole of s
MatchesPk(s) ==
    Len(s) > 1 /\ SubSeq(s, Len(s), Len(s)) = "/" /\ IsSegment(SubSeq(s, 1, Len(s) - 1))

AfterPrefix(s, prefix) == SubSeq(s, Len(prefix) + 1, Len(s))

\* urlpatterns, tried in order; the first pattern that matches wins
resolve(url) ==
    IF url = ""
    THEN [pattern |-> "", pk |-> None]
    ELSE IF MatchesPk(url)
    THEN [pattern |-> "<str:pk>/", pk |-> SubSeq(url, 1, Len(url) - 1)]
    ELSE IF url = "list/"
    THEN [pattern |-> "list/", pk |-> None]
    ELSE IF startswith(url, "retrieve/") /\ MatchesPk(AfterPrefix(url, "retrieve/"))
    THEN [pattern |-> "retrieve/<str:pk>/",
          pk |-> SubSeq(url, Len("retrieve/") + 1, Len(url) - 1)]
    ELSE [pattern |-> "Resolver404", pk |-> None]

\* the handler a pattern's as_view() binds to the method
action(pattern, method) ==
    CASE pattern = "" /\ method = "GET"                    -> "list"
      [] pattern = "" /\ method = "POST"                   -> "create"
      [] pattern = "<str:pk>/" /\ method = "GET"           -> "retrieve"
      [] pattern = "<str:pk>/" /\ method = "PUT"           -> "update"
      [] pattern = "<str:pk>/" /\ method = "PATCH"         -> "partial_update"
      [] pattern = "list/" /\ method = "GET"               -> "AccountsListView.list"
      [] pattern = "retrieve/<str:pk>/" /\ method = "GET"  -> "AccountRetrieveView.retrieve"
      [] pattern = "Resolver404"                           -> "Resolver404"
      [] OTHER                                             -> "MethodNotAllowed"

\* the handler of a request of the user app, or where else the request goes
route(path, method) ==
    IF startswith(path, Mount)
    THEN action(resolve(AfterPrefix(path, Mount)).pattern, method)
    ELSE "elsewhere"

ReadsMETA(path, method) ==
    route(path, method) \notin {"elsewhere", "Resolver404", "MethodNotAllowed"}

ReadsBody(path, method) ==
    route(path, method) \in {"create", "update", "partial_update"}

\* the next stage of the middleware: the response to a forwarded request
dispatch(a, pk, oauthToken, data) ==
    CASE a = "list"           -> AccountViewset_list(oauthToken)
      [] a = "create"         -> AccountViewset_create(oauthToken, data)
      [] a = "retrieve"       -> AccountViewset_retrieve(oauthToken, pk)
      [] a = "update"         -> AccountViewset_update(oauthToken, pk, data)
      [] a = "partial_update" -> partial_update(oauthToken, pk, data)
      [] a = "AccountsListView.list" -> AccountsListView_list(oauthToken)
      [] a = "AccountRetrieveView.retrieve" -> AccountRetrieveView_retrieve(oauthToken, pk)
      [] a = "MethodNotAllowed" -> Untouched(405, 0)
      [] a = "Resolver404"    -> Untouched(404, 0)
      [] OTHER                -> Untouched(200, 0)

get_response(path, method, oauthToken, data) ==
    dispatch(route(path, method), resolve(AfterPrefix(path, Mount)).pk, oauthToken, data)

(***************************************************************************)
(* The state machine                                                       *)
(***************************************************************************)

NoRequest ==
    [path |-> Unread, headers |-> Unread, method |-> Unread, META |-> Unread,
     data |-> UnreadBody]

NoResponse == [status |-> 0, body |-> <<>>]

Checking == [state |-> "CHECKING", forwards |-> 0]

Init ==
    /\ accounts = <<>>
    /\ stamped = <<>>
    /\ pc = "idle"
    /\ request = NoRequest
    /\ gate = Checking
    /\ calls = <<>>
    /\ response = NoResponse

\* a request arrives: its path and the value its header container gives
\* for the key 'HTTP_AUTHORIZATION'
NewRequest ==
    /\ pc = "idle"
    /\ \E path \in Paths, h \in HeaderValues :
          request' = [NoRequest EXCEPT !.path = path, !.headers = h]
    /\ pc' = "gate"
    /\ UNCHANGED <<accounts, stamped, gate, calls, response>>

\* ClerkAuthMiddleware.__call__: forward, or raise PermissionDenied (a 403)
Gate ==
    /\ pc = "gate"
    /\ LET g == ClerkAuthMiddleware_call(request.path, request.headers)
       IN  /\ calls' = calls \o g.calls
           /\ IF g.forward
              THEN /\ gate' = [state |-> "ALLOWED", forwards |-> gate.forwards + 1]
                   /\ pc' = "next"
                   /\ response' = response
              ELSE /\ gate' = [gate EXCEPT !.state = "REJECTED"]
                   /\ pc' = "done"
                   /\ response' = [status |-> 403, body |-> <<>>]
    /\ UNCHANGED <<accounts, stamped, request>>

\* the handler's effects: the table, the verifier calls logged, the response
Respond(h, oauthToken) ==
    /\ Len(h.accounts) <= MaxAccounts
    /\ accounts' = h.accounts
    /\ stamped' = h.stamped
    /\ calls' = calls \o [k \in 1..h.n |-> Call("handler", oauthToken)]
    /\ response' = [status |-> h.status, body |-> h.body]

\* self.get_response(request): the handler reads the method, META and the body
NextStage ==
    /\ pc = "next"
    /\ \E method \in Methods, m \in HeaderValues \cup {Unread}, data \in Bodies \cup {UnreadBody} :
          /\ (m = Unread) = ~ReadsMETA(request.path, method)
          /\ (data = UnreadBody) = ~ReadsBody(request.path, method)
          /\ Respond(get_response(request.path, method, m, data), m)
          /\ request' = [request EXCEPT !.method = method, !.META = m, !.data = data]
    /\ pc' = "done"
    /\ UNCHANGED gate

\* self.get_response(request) raises for a request that goes to code outside
\* the user app: on an exempt path the call is outside the try and the exception
\* leaves the middleware as it is (a 500); on any other path the call is inside
\* the try, whose `except Exception` raises PermissionDenied (a 403)
NextStageRaises ==
    /\ pc = "next"
    /\ ~startswith(request.path, Mount)
    /\ \E method \in Methods : request' = [request EXCEPT !.method = method]
    /\ IF IsExempt(request.path)
       THEN /\ gate' = gate
            /\ response' = [status |-> 500, body |-> <<>>]
       ELSE /\ gate' = [gate EXCEPT !.state = "REJECTED"]
            /\ response' = [status |-> 403, body |-> <<>>]
    /\ pc' = "done"
    /\ UNCHANGED <<accounts, stamped, calls>>

\* the response is sent; the next request starts from the stored table alone
Finish ==
    /\ pc = "done"
    /\ pc' = "idle"
    /\ request' = NoRequest
    /\ gate' = Checking
    /\ calls' = <<>>
    /\ response' = NoResponse
    /\ UNCHANGED <<accounts, stamped>>

Next == NewRequest \/ Gate \/ NextStage \/ NextStageRaises \/ Finish

Spec == Init /\ [][Next]_vars

(***************************************************************************)
(* Properties                                                              *)
(***************************************************************************)

\* the middleware has decided on the request in flight
Decided == pc \in {"next", "done"}

\* the handler of the request in flight has run and read the credential
Served == pc = "done" /\ gate.forwards > 0 /\ request.META # Unread

\* what the handler's verification of the request in flight gave
HandlerVerdict == verify_auth_token(request.META)

\* the handler verified the caller as u
VerifiedAs(u) == Served /\ HandlerVerdict.raised = "" /\ HandlerVerdict.value = u

\* the handler the request in flight was routed to
Routed == route(request.path, request.method)

\* the rows whose primary key is the pk of the request's URL
Target(path) ==
    {i \in Rows : account_id(i) = resolve(AfterPrefix(path, Mount)).pk}

\* C1: a non-exempt request whose credential the verifier fails on (an empty
\* token, no session, a session without user_id, a validation error or any
\* other exception) is rejected with PermissionDenied and never forwarded.
C1_FailedCredentialRejected ==
    (/\ Decided
     /\ ~IsExempt(request.path)
     /\ request.headers # None
     /\ verify_auth_token(request.headers).raised # "")
    => /\ pc = "done"
       /\ gate = [state |-> "REJECTED", forwards |-> 0]
       /\ response = [status |-> 403, body |-> <<>>]
       /\ request.method = Unread

C1_Witness ==
    /\ pc = "done"
    /\ request.path = Mount
    /\ request.headers = "sess_err"
    /\ gate.state = "REJECTED"

\* C2: a non-exempt request whose credential header is absent or empty is
\* rejected with PermissionDenied, the verifier is not called and the request
\* is not forwarded.
C2_MissingHeaderRejected ==
    (Decided /\ ~IsExempt(request.path) /\ Falsy(request.headers))
    => /\ pc = "done"
       /\ gate = [state |-> "REJECTED", forwards |-> 0]
       /\ response = [status |-> 403, body |-> <<>>]
       /\ calls = <<>>
       /\ request.method = Unread

C2_Witness ==
    /\ pc = "done"
    /\ request.path = Mount \o "list/"
    /\ request.headers = ""
    /\ response.status = 403

\* C3: a request whose path has '/admin' as a literal string prefix is
\* forwarded to the next stage exactly once and the verifier is never called,
\* whatever the credential header holds.
C3_ExemptForwarded ==
    (Decided /\ startswith(request.path, "/admin"))
    => /\ gate = [state |-> "ALLOWED", forwards |-> 1]
       /\ calls = <<>>
       /\ pc = "done" => request.method # Unread

C3_Witness ==
    /\ pc = "done"
    /\ request.path = "/administrator"
    /\ request.headers = "sess_gone"
    /\ gate.forwards = 1

\* C4: a non-exempt request is forwarded if and only if the verifier returned
\* a non-empty identifier for its credential, and verify_auth_token never
\* returns an empty or null identifier.
C4_AuthenticatedIffNonEmptyId ==
    /\ (Decided /\ ~IsExempt(request.path))
       => (gate.forwards > 0 <=>
              /\ verify_auth_token(request.headers).raised = ""
              /\ ~Falsy(verify_auth_token(request.headers).value))
    /\ \A k \in DOMAIN calls :
          calls[k].result.raised = "" => ~Falsy(calls[k].result.value)

\* the step in which the handler of the request in flight runs
HandlerStep == pc = "next" /\ pc' = "done"

\* the request handled in this step is an update (PUT) or partial update (PATCH)
Mutating == route(request'.path, request'.method) \in {"update", "partial_update"}

\* the handler of this step verified the caller as the owner of row i
ByOwner(i) ==
    /\ verify_auth_token(request'.META).raised = ""
    /\ verify_auth_token(request'.META).value = accounts[i].clerk_id

\* C5: a stored account is changed by a request only if the handler verified
\* the caller as the account's owner, on PUT and on PATCH alike; and an update
\* with a valid body aimed at an existing account is applied if and only if
\* the handler verified the caller as its owner.
C5_OnlyOwnerWrites ==
    [][\A i \in DOMAIN accounts :
          /\ accounts'[i] # accounts[i]
             => HandlerStep /\ Mutating /\ i \in Target(request'.path) /\ ByOwner(i)
          /\ (HandlerStep /\ Mutating /\ i \in Target(request'.path)
                 /\ is_valid(request'.data, i))
             => ((response'.status = 200 /\ accounts' = perform_update(i, request'.data))
                    <=> ByOwner(i))]_vars

C5_Witness ==
    /\ VerifiedAs("user_1")
    /\ Routed = "update"
    /\ request.data.username = "bob"
    /\ response.status = 404
    /\ \E i \in Target(request.path) :
          accounts[i].clerk_id = "user_2" /\ accounts[i].username = "ann"

\* C6: a partial update succeeds only when the target record's owner is the
\* caller's verified identifier; aimed at an existing record of another owner
\* it ends with 403 and changes no record.
C6_PartialUpdateOthersRejected ==
    [][(HandlerStep /\ route(request'.path, request'.method) = "partial_update")
          => /\ \A i \in Target(request'.path) :
                   (/\ verify_auth_token(request'.META).raised = ""
                    /\ ~ByOwner(i))
                   => /\ response'.status = 403
                      /\ accounts' = accounts
                      /\ stamped' = stamped
             /\ response'.status = 200
                => \E i \in Target(request'.path) : ByOwner(i)]_vars

C6_Witness ==
    /\ VerifiedAs("user_1")
    /\ Routed = "partial_update"
    /\ request.data.username = "bob"
    /\ response.status = 403
    /\ \E i \in Target(request.path) :
          accounts[i].clerk_id = "user_2" /\ accounts[i].username = "ann"

\* C7: every account created through the API is owned by the identifier the
\* verifier returned for the request that created it; no body of a create or
\* of a later update sets or changes the owner.
C7_OwnerServerDerived ==
    /\ Len(stamped) = Len(accounts)
    /\ \A i \in Rows : accounts[i].clerk_id = stamped[i]

C7_Witness ==
    /\ VerifiedAs("user_1")
    /\ Routed = "create"
    /\ response.status = 201
    /\ request.data.clerk_id = "user_2"
    /\ accounts[Len(accounts)].clerk_id = "user_1"

\* the account_ids of a response payload
Ids(body) == {body[k].account_id : k \in DOMAIN body}

\* the rows owned by u
OwnedBy(u) == {i \in Rows : accounts[i].clerk_id = u}

\* C8: for a caller verified as U, AccountViewset's list returns exactly the
\* stored accounts owned by U: all of them, none of another owner, each once.
C8_ListExactlyOwn ==
    (Served /\ Routed = "list" /\ HandlerVerdict.raised = "")
    => /\ response.status = 200
       /\ Ids(response.body) = {account_id(i) : i \in OwnedBy(HandlerVerdict.value)}
       /\ Len(response.body) = Cardinality(OwnedBy(HandlerVerdict.value))

C8_Witness ==
    /\ VerifiedAs("user_1")
    /\ Routed = "list"
    /\ Len(accounts) = 2
    /\ accounts[1].clerk_id = "user_2"
    /\ Ids(response.body) = {account_id(2)}

\* C9: when the provider call fails for a non-empty token, by a validation
\* error or by any other provider-side error, verify_auth_token fails with
\* PermissionDenied and with no other error.
C9_ProviderFailureIsPermissionDenied ==
    \A k \in DOMAIN calls :
       (/\ ~Falsy(calls[k].token)
        /\ sessions_get(calls[k].token).kind \notin {"session", "none"})
       => calls[k].result.raised = "PermissionDenied"

\* C10: with a non-empty token verify_auth_token makes one provider lookup,
\* with the token as session reference; it returns the session's user_id when
\* the session has one, and fails with PermissionDenied when the provider
\* returns None or a session without user_id.
C10_VerifierResultMapping ==
    \A k \in DOMAIN calls :
       ~Falsy(calls[k].token)
       => /\ calls[k].result.lookups = <<calls[k].token>>
          /\ (sessions_get(calls[k].token).kind = "session"
                 /\ sessions_get(calls[k].token).has_user_id)
             => calls[k].result = Returned(sessions_get(calls[k].token).user_id,
                                           <<calls[k].token>>)
          /\ (\/ sessions_get(calls[k].token).kind = "none"
              \/ (sessions_get(calls[k].token).kind = "session"
                     /\ ~sessions_get(calls[k].token).has_user_id))
             => calls[k].result.raised = "PermissionDenied"

C10_Witness ==
    /\ pc = "done"
    /\ \E k \in DOMAIN calls :
          /\ calls[k].site = "handler"
          /\ calls[k].token = "sess_nouid"
          /\ calls[k].result.raised = "PermissionDenied"
    /\ \E k \in DOMAIN calls :
          /\ calls[k].site = "gate"
          /\ calls[k].token = "sess_u2"
          /\ calls[k].result.value = "user_2"


\* C11: called with an empty or absent (None) token, verify_auth_token fails
\* with PermissionDenied at once and makes no call to the identity provider.
C11_EmptyTokenNoLookup ==
    \A k \in DOMAIN calls :
       Falsy(calls[k].token)
       => calls[k].result = Raised("PermissionDenied", <<>>)

C11_Witness ==
    /\ pc = "done"
    /\ \E k \in DOMAIN calls : calls[k].site = "handler" /\ calls[k].token = None
    /\ \E k \in DOMAIN calls : calls[k].site = "gate" /\ calls[k].token = "sess_u1"
    /\ response.status = 403


\* the handler of this step called the verifier and the verifier failed
ReverificationFailed ==
    /\ Len(calls') > Len(calls)
    /\ calls'[Len(calls')].site = "handler"
    /\ calls'[Len(calls')].result.raised # ""

\* the handler of this step verified the caller and then met another exception
\* inside its try block: the IntegrityError of a second account for the same
\* owner, the Http404 of get_object, the ValidationError of the serializer
GuardedException ==
    /\ request'.META # Unread
    /\ verify_auth_token(request'.META).raised = ""
    /\ \/ /\ route(request'.path, request'.method) = "create"
          /\ is_valid(request'.data, 0)
          /\ ClerkIdTaken(verify_auth_token(request'.META).value)
       \/ /\ route(request'.path, request'.method) = "partial_update"
          /\ \A i \in Target(request'.path) : ~ByOwner(i) \/ ~is_valid(request'.data, i)
       \/ /\ route(request'.path, request'.method) = "AccountRetrieveView.retrieve"
          /\ Target(request'.path) = {}

\* C12: in every handler, if the re-verification of the credential fails, or
\* another exception is raised inside the handler's guarded step (such as a
\* create for an identifier that already owns an account), the request ends
\* with 403 and the stored table is exactly as before.
C12_GuardedFailureIs403 ==
    [][(HandlerStep /\ (ReverificationFailed \/ GuardedException))
          => /\ response' = [status |-> 403, body |-> <<>>]
             /\ accounts' = accounts
             /\ stamped' = stamped]_vars

C12_Witness ==
    /\ VerifiedAs("user_1")
    /\ Routed = "create"
    /\ response.status = 403
    /\ request.data.username = "bob"
    /\ Len(accounts) = 1
    /\ accounts[1] = Account("user_1", "ann", None)


\* the request in flight was served by one of the two retrieve-by-id handlers,
\* which verified the caller
RetrievedById ==
    /\ Served
    /\ HandlerVerdict.raised = ""
    /\ Routed \in {"retrieve", "AccountRetrieveView.retrieve"}

\* C13: for an authenticated caller, retrieve-by-id of an identifier that
\* matches no stored record answers 404, never 403, on AccountViewset.retrieve
\* and on AccountRetrieveView alike.
C13_MissingRecordIs404 ==
    (RetrievedById /\ Target(request.path) = {})
    => response.status = 404

\* C14 as stated: for a caller verified as U, retrieve-by-id of an existing
\* record returns the record's payload whoever owns the record, on either
\* retrieve-by-id handler.
C14_RetrieveIndependentOfOwner ==
    RetrievedById
    => \A i \in Target(request.path) :
          response = [status |-> 200, body |-> <<AccountSerializer(i)>>]

\* C14 amended: AccountRetrieveView returns an existing record's payload
\* whoever owns it; AccountViewset.retrieve returns it only when the record's
\* owner is the caller's verified identifier, and answers 404 otherwise.
C14_RetrieveOwnerScopedOnViewset ==
    RetrievedById
    => \A i \in Target(request.path) :
          IF Routed = "AccountRetrieveView.retrieve"
                \/ accounts[i].clerk_id = HandlerVerdict.value
          THEN response = [status |-> 200, body |-> <<AccountSerializer(i)>>]
          ELSE response = [status |-> 404, body |-> <<>>]

C14_Witness ==
    /\ VerifiedAs("user_1")
    /\ Routed = "AccountRetrieveView.retrieve"
    /\ response.status = 200
    /\ Len(accounts) = 2
    /\ accounts[2].clerk_id = "user_1"
    /\ \E i \in Target(request.path) : accounts[i].clerk_id = "user_2"


\* the generic forbidden response
Forbidden == [status |-> 403, body |-> <<>>]

\* C15: a request rejected because its credential is missing or empty, or the
\* verifier failed on it (provider error, no session, session without
\* identifier), or the target record is owned by another identifier, gets the
\* one generic 403 response, whatever the cause and whatever the route.
C15_SingleForbiddenOutcome ==
    /\ (pc = "done" /\ gate.state = "REJECTED") => response = Forbidden
    /\ (pc = "done" /\ \E k \in DOMAIN calls : calls[k].result.raised # "")
       => response = Forbidden
    /\ (/\ Served
        /\ HandlerVerdict.raised = ""
        /\ Routed \in {"retrieve", "update", "partial_update"}
        /\ \E i \in Target(request.path) : accounts[i].clerk_id # HandlerVerdict.value)
       => response = Forbidden


\* C16: whatever creates and updates were served or rejected, no two stored
\* accounts share a non-null clerk_id; a create by an identifier that already
\* owns an account adds no record.
C16_OwnerUnique ==
    [][/\ \A i, j \in DOMAIN accounts' :
             (accounts'[i].clerk_id # None /\ accounts'[i].clerk_id = accounts'[j].clerk_id)
             => i = j
       /\ (/\ HandlerStep
           /\ route(request'.path, request'.method) = "create"
           /\ request'.META # Unread
           /\ verify_auth_token(request'.META).raised = ""
           /\ verify_auth_token(request'.META).value # None
           /\ \E i \in Rows : accounts[i].clerk_id = verify_auth_token(request'.META).value)
          => accounts' = accounts]_vars

C16_Witness ==
    /\ VerifiedAs("user_2")
    /\ Routed = "create"
    /\ request.data.username = None
    /\ response.status = 403
    /\ Len(accounts) = 2
    /\ accounts[2].clerk_id = "user_2"


\* the number of verify_auth_token calls the request in flight made at a site
CallsAt(site) == Cardinality({k \in DOMAIN calls : calls[k].site = site})

\* C17 as stated: a request makes at most two verifier calls, at most one by
\* the middleware and at most one by the handler, on every operation.
C17_AtMostTwoCalls ==
    /\ CallsAt("gate") <= 1
    /\ CallsAt("handler") <= 1
    /\ Len(calls) <= 2

\* C17 amended: at most one verifier call by the middleware; at most one by
\* the handler on list, create, retrieve and full update; up to three by the
\* handler on partial update (partial_update itself, then get_queryset under
\* each of the two get_object calls), three when the partial update succeeds.
C17_CallsBounded ==
    /\ CallsAt("gate") <= 1
    /\ CallsAt("handler") > 0
       => /\ request.method # Unread
          /\ CallsAt("handler") <= IF Routed = "partial_update" THEN 3 ELSE 1
    /\ (Served /\ Routed = "partial_update" /\ response.status = 200)
       => CallsAt("handler") = 3

C17_Witness ==
    /\ VerifiedAs("user_1")
    /\ Routed = "partial_update"
    /\ response.status = 200
    /\ Len(calls) = 4
    /\ calls[1].site = "gate"


\* C18: on a non-exempt request the token the middleware takes from the
\* request and passes to the verifier is the value the handler takes from the
\* request and passes to the verifier; a credential is seen by both call sites
\* or by neither.
C18_SameCredentialBothSites ==
    (Served /\ ~IsExempt(request.path))
    => /\ request.META = request.headers
       /\ \A j, k \in DOMAIN calls : calls[j].token = calls[k].token


\* C19: per request the middleware goes from CHECKING to one terminal outcome,
\* ALLOWED or REJECTED; a request it has forwarded to the next stage is never
\* afterwards rejected with PermissionDenied, also when the next stage raises.
C19_ForwardedNeverRejected ==
    /\ pc = "gate" => gate.state = "CHECKING"
    /\ Decided => gate.state \in {"ALLOWED", "REJECTED"}
    /\ gate.forwards > 0 => gate.state = "ALLOWED"


\* the patterns declared in urlpatterns
urlpatterns == {"", "<str:pk>/", "list/", "retrieve/<str:pk>/"}

\* C20: under first-match dispatch each of the four declared patterns is the
\* first match of some request path, and a GET of 'list/' is served by
\* AccountsListView, not by AccountViewset.retrieve with pk = 'list'.
C20_ListRouteReachable ==
    (pc = "done" /\ gate.forwards > 0 /\ request.path = Mount \o "list/"
        /\ request.method = "GET")
    => /\ Routed = "AccountsListView.list"
       /\ response.status # 404
       /\ \A p \in urlpatterns :
             \E path \in Paths :
                startswith(path, Mount) /\ resolve(AfterPrefix(path, Mount)).pattern = p

====
